---- MODULE Spec2Model ----
(***************************************************************************)
(* Model of the Oracle MCP server (oracle-mcp-server.js): the tool-call    *)
(* handler registered for CallToolRequestSchema and the five executors it  *)
(* routes to.  Every request is one invocation of the async handler; the   *)
(* handler runs synchronously up to its next await (getConnection,         *)
(* connection.execute, connection.close), and the driver settles each      *)
(* awaited promise with success or failure.  Nothing in the handler        *)
(* serialises invocations, so two requests may be in flight together.      *)
(***************************************************************************)
EXTENDS Integers, Sequences, FiniteSets, TLC

(* ---------------------------------------------------------------- bounds *)

\* rows a statement may return / affect: 0..MaxRows
MaxRows == 1
\* whitespace characters put before and after a statement: 0..MaxPad each
MaxPad == 1

\* the requests a client may have outstanding at once
CallIds == {"r1", "r2"}

(* ------------------------------------------------------- JavaScript values *)

\* an optional value: <<>> is undefined, <<v>> is the value v
Undefined == <<>>
Def(v) == <<v>>

\* JavaScript truthiness of an optional string (undefined and "" are falsy)
Truthy(x) == x # Undefined /\ x[1] # ""

\* a value interpolated into a template string
Str(x) == IF x = Undefined THEN "undefined" ELSE x[1]

(* ------------------------------------------------------------- characters *)

Lower == <<"a","b","c","d","e","f","g","h","i","j","k","l","m",
           "n","o","p","q","r","s","t","u","v","w","x","y","z">>
Upper == <<"A","B","C","D","E","F","G","H","I","J","K","L","M",
           "N","O","P","Q","R","S","T","U","V","W","X","Y","Z">>
WhiteSpace == {" ", "\t", "\n"}

UpperChar(ch) ==
  IF \E i \in 1..Len(Lower) : Lower[i] = ch
  THEN Upper[CHOOSE i \in 1..Len(Lower) : Lower[i] = ch]
  ELSE ch
LowerChar(ch) ==
  IF \E i \in 1..Len(Upper) : Upper[i] = ch
  THEN Lower[CHOOSE i \in 1..Len(Upper) : Upper[i] = ch]
  ELSE ch

\* String.prototype.toUpperCase
ToUpperCase(s) == [i \in 1..Len(s) |-> UpperChar(s[i])]
ToLowerCase(s) == [i \in 1..Len(s) |-> LowerChar(s[i])]

RECURSIVE TrimStart(_)
TrimStart(s) ==
  IF s # <<>> /\ Head(s) \in WhiteSpace THEN TrimStart(Tail(s)) ELSE s
RECURSIVE TrimEnd(_)
TrimEnd(s) ==
  IF s # <<>> /\ s[Len(s)] \in WhiteSpace
  THEN TrimEnd(SubSeq(s, 1, Len(s) - 1)) ELSE s

\* String.prototype.trim
Trim(s) == TrimEnd(TrimStart(s))

\* String.prototype.startsWith
StartsWith(s, p) == Len(p) <= Len(s) /\ SubSeq(s, 1, Len(p)) = p

SELECT == <<"S","E","L","E","C","T">>
INSERT == <<"I","N","S","E","R","T">>
UPDATE == <<"U","P","D","A","T","E">>
DELETE == <<"D","E","L","E","T","E">>

(* ------------------------------------------------------------------ errors *)

\* a thrown value: an McpError (mcp = TRUE, with its ErrorCode) or any other
\* Error (a TypeError, a driver error); message is the list of the parts a
\* template string concatenates
NoError == [mcp |-> FALSE, code |-> "none", message |-> <<>>]
McpError(code, message) == [mcp |-> TRUE, code |-> code, message |-> message]
PlainError(message) == [mcp |-> FALSE, code |-> "Error", message |-> message]

\* reading a property of undefined
TypeErrorReading(prop) ==
  PlainError(<<"Cannot read properties of undefined (reading '", prop, "')">>)

\* the messages the driver rejects getConnection, execute and close with
ConnectErrors == {<<"ORA-12541: TNS:no listener">>}
ExecuteErrors == {<<"ORA-00942: table or view does not exist">>}
CloseErrors == {<<"DPI-1010: not connected">>}

(* ---------------------------------------------------------------- requests *)

ToolNames == {"execute_query", "execute_dml", "describe_table", "list_tables",
              "get_connection_info"}
UnknownNames == {"drop_table"}

NoArgs == [query |-> Undefined, statement |-> Undefined,
           table_name |-> Undefined, schema |-> Undefined]

Pad(n) == [i \in 1..n |-> IF i % 2 = 1 THEN " " ELSE "\n"]
Cores == {SELECT, INSERT, UPDATE, DELETE,
          <<"D","R","O","P">>, <<"S","E","L","E","C">>, <<"X">> \o SELECT}
Statements ==
  {Pad(l) \o k \o Pad(r) : l \in 0..MaxPad, r \in 0..MaxPad, k \in Cores}
   \cup {ToLowerCase(k) : k \in Cores}
   \cup {<<>>, <<"S","e","l","e","c","t"," ","1">>,
         <<"\t","u","P","d","A","t","E","\n">>}

TableNames == {"EMP"}
Schemas == {"", "HR"}

\* request.params of a tools/call request: name and the optional arguments
\* object (hasArgs = FALSE when the request carries no arguments)
Requests ==
  {[name |-> "execute_query", hasArgs |-> TRUE, args |-> [NoArgs EXCEPT !.query = q]] :
     q \in {Undefined} \cup {Def(s) : s \in Statements}}
  \cup
  {[name |-> "execute_dml", hasArgs |-> TRUE, args |-> [NoArgs EXCEPT !.statement = q]] :
     q \in {Undefined} \cup {Def(s) : s \in Statements}}
  \cup
  {[name |-> "describe_table", hasArgs |-> TRUE,
    args |-> [NoArgs EXCEPT !.table_name = t, !.schema = s]] :
     t \in {Undefined} \cup {Def(x) : x \in TableNames},
     s \in {Undefined} \cup {Def(x) : x \in Schemas}}
  \cup
  {[name |-> "list_tables", hasArgs |-> TRUE, args |-> [NoArgs EXCEPT !.schema = s]] :
     s \in {Undefined} \cup {Def(x) : x \in Schemas}}
  \cup
  {[name |-> n, hasArgs |-> h, args |-> NoArgs] :
     n \in ToolNames \cup UnknownNames, h \in BOOLEAN}

(* ------------------------------------------------------------------- state *)

\* calls[c]: one invocation of the CallToolRequestSchema handler
\*   pc          idle | awaitConnect | awaitExecute | awaitClose | responded
\*   name, hasArgs, args   request.params
\*   entered     the executor method the switch called ("none" if none)
\*   connection  the executor's local: undefined | open | closed | closeFailed
\*   acquires    calls of oracledb.getConnection
\*   opens       connections getConnection resolved with
\*   closes      calls of connection.close
\*   executes    the statements passed to connection.execute, in order
\*   info        getConnectionInfo's info mapping, in insertion order
\*   rows        result.rows.length of the last resolved execute (-1: none)
\*   completion  the return value or thrown error a finally block holds
\*   failed      the steps of the call that failed: dispatch (the switch),
\*               validation, connect, execute, close
\*   driverError the error the driver rejected getConnection with
\*   caught      the error the handler's catch clause received
\*   response    the handler's settlement; responses counts settlements
VARIABLES calls

vars == <<calls>>

Return(text) == [t |-> "return", value |-> text, error |-> NoError]
Throw(error) == [t |-> "throw", value |-> <<>>, error |-> error]
NoCompletion == [t |-> "none", value |-> <<>>, error |-> NoError]
NoResponse == [kind |-> "none", code |-> "none", message |-> <<>>]

IdleCall ==
  [pc |-> "idle", name |-> "", hasArgs |-> FALSE, args |-> NoArgs,
   entered |-> "none", connection |-> "undefined",
   acquires |-> 0, opens |-> 0, closes |-> 0, executes |-> <<>>, info |-> <<>>,
   rows |-> -1, completion |-> NoCompletion, failed |-> {},
   driverError |-> NoError, caught |-> NoError,
   response |-> NoResponse, responses |-> 0]

Init == calls = [c \in CallIds |-> IdleCall]

(* --------------------------------------------------------------- validator *)


\* mutant: the guard without trim()
ExecuteQueryAllowed_NoTrim(query) == StartsWith(ToUpperCase(query), SELECT)

\* executeQuery's guard: query.trim().toUpperCase().startsWith('SELECT')
ExecuteQueryAllowed(query) == StartsWith(ToUpperCase(Trim(query)), SELECT)

\* executeDML's guard on upperStatement = statement.trim().toUpperCase()
ExecuteDMLAllowed(statement) ==
  LET upperStatement == ToUpperCase(Trim(statement))
  IN  ~(~StartsWith(upperStatement, INSERT) /\
        ~StartsWith(upperStatement, UPDATE) /\
        ~StartsWith(upperStatement, DELETE))

(* ---------------------------------------------------------------- executor *)


\* mutant: getConnection without its catch clause
GetConnectionCatch_Rethrow(error) == error

\* getConnection's catch clause
GetConnectionCatch(error) ==
  McpError("InternalError",
           <<"Failed to connect to Oracle database: ">> \o error.message)


\* mutant: a finally block that closes without the if (connection) guard
FinallyCloses_NoGuard(connection) == TRUE
\* mutant: no finally block
FinallyCloses_Never(connection) == FALSE

\* the guard of every executor's finally block: if (connection)
FinallyCloses(connection) == connection # "undefined"


\* mutant: describeTable without its empty-result check
DescribeTableNotFound_Never(rows) == FALSE

\* describeTable's check: result.rows.length === 0
DescribeTableNotFound(rows) == rows = 0


\* mutant: the current-user and current-schema queries swapped
queries_Swapped ==
  << [name |-> "Database Version",
      query |-> <<"SELECT BANNER FROM V$VERSION WHERE ROWNUM = 1">>],
     [name |-> "Current Schema",
      query |-> <<"SELECT SYS_CONTEXT('USERENV', 'CURRENT_SCHEMA') AS CURRENT_SCHEMA FROM DUAL">>],
     [name |-> "Current User",
      query |-> <<"SELECT USER FROM DUAL">>],
     [name |-> "Session Info",
      query |-> <<"SELECT SYS_CONTEXT('USERENV', 'SESSIONID') AS SESSION_ID, SYS_CONTEXT('USERENV', 'SERVER_HOST') AS SERVER_HOST FROM DUAL">>] >>

\* getConnectionInfo's queries, in array order
queries ==
  << [name |-> "Database Version",
      query |-> <<"SELECT BANNER FROM V$VERSION WHERE ROWNUM = 1">>],
     [name |-> "Current User",
      query |-> <<"SELECT USER FROM DUAL">>],
     [name |-> "Current Schema",
      query |-> <<"SELECT SYS_CONTEXT('USERENV', 'CURRENT_SCHEMA') AS CURRENT_SCHEMA FROM DUAL">>],
     [name |-> "Session Info",
      query |-> <<"SELECT SYS_CONTEXT('USERENV', 'SESSIONID') AS SESSION_ID, SYS_CONTEXT('USERENV', 'SERVER_HOST') AS SERVER_HOST FROM DUAL">>] >>

\* the statement and binds an executor passes to its first connection.execute
FirstExecute(call) ==
  CASE call.entered = "executeQuery" ->
         [sql |-> call.args.query[1], binds |-> <<>>]
    [] call.entered = "executeDML" ->
         [sql |-> call.args.statement[1], binds |-> <<>>]
    [] call.entered = "describeTable" ->
         IF Truthy(call.args.schema)
         THEN [sql |-> <<"SELECT COLUMN_NAME, DATA_TYPE, DATA_LENGTH, NULLABLE, DATA_DEFAULT FROM ALL_TAB_COLUMNS WHERE TABLE_NAME = UPPER(:tableName) AND OWNER = UPPER(:schema) ORDER BY COLUMN_ID">>,
               binds |-> <<Str(call.args.table_name), Str(call.args.schema)>>]
         ELSE [sql |-> <<"SELECT COLUMN_NAME, DATA_TYPE, DATA_LENGTH, NULLABLE, DATA_DEFAULT FROM USER_TAB_COLUMNS WHERE TABLE_NAME = UPPER(:tableName) ORDER BY COLUMN_ID">>,
               binds |-> <<Str(call.args.table_name)>>]
    [] call.entered = "listTables" ->
         IF Truthy(call.args.schema)
         THEN [sql |-> <<"SELECT TABLE_NAME, OWNER FROM ALL_TABLES WHERE OWNER = UPPER(:schema) ORDER BY TABLE_NAME">>,
               binds |-> <<Str(call.args.schema)>>]
         ELSE [sql |-> <<"SELECT TABLE_NAME FROM USER_TABLES ORDER BY TABLE_NAME">>,
               binds |-> <<>>]
    [] call.entered = "getConnectionInfo" ->
         [sql |-> queries[1].query, binds |-> <<>>]

\* JSON.stringify of a row list of n rows (the rows are the driver's data)
StringifyRows(n) == "[" \o ToString(n) \o " rows]"

\* what an executor does with a resolved execute whose result has n rows
\* (n rowsAffected for executeDML): the text it returns or the error it throws
AfterExecute(call, n) ==
  CASE call.entered = "executeQuery" ->
         Return(<<"Query executed successfully. Returned ", ToString(n),
                  " rows.\n\nResults:\n", StringifyRows(n)>>)
    [] call.entered = "executeDML" ->
         Return(<<"DML statement executed successfully. ", ToString(n),
                  " rows affected.">>)
    [] call.entered = "describeTable" ->
         IF DescribeTableNotFound(n)
         THEN Throw(McpError("InvalidParams",
                <<"Table '", Str(call.args.table_name), "' not found">>
                \o (IF Truthy(call.args.schema)
                    THEN <<" in schema '", Str(call.args.schema), "'">>
                    ELSE <<>>)))
         ELSE Return(<<"Table structure for ">>
                \o (IF Truthy(call.args.schema)
                    THEN <<Str(call.args.schema), ".">> ELSE <<>>)
                \o <<Str(call.args.table_name), ":\n\n", StringifyRows(n)>>)
    [] call.entered = "listTables" ->
         Return(<<"Tables">>
                \o (IF Truthy(call.args.schema)
                    THEN <<" in schema '", Str(call.args.schema), "'">>
                    ELSE <<>>)
                \o <<":\n\n", StringifyRows(n)>>)
    [] call.entered = "getConnectionInfo" ->
         Return(<<"Oracle Database Connection Information:\n\n">>
                \o [i \in 1..Len(call.info) |-> call.info[i].name])

(* -------------------------------------------------------------- dispatcher *)


\* mutant: a switch whose default falls through to get_connection_info
Route_FallThrough(name) ==
  IF name \in ToolNames THEN name ELSE "get_connection_info"

\* the switch on the tool name: the case taken
Route(name) == IF name \in ToolNames THEN name ELSE "default"


\* mutant: a catch clause without the instanceof McpError test
DispatcherCatch_AlwaysWrap(error) ==
  McpError("InternalError", <<"Database operation failed: ">> \o error.message)

\* the handler's catch clause: what it rethrows
DispatcherCatch(error) ==
  IF error.mcp
  THEN error
  ELSE McpError("InternalError",
                <<"Database operation failed: ">> \o error.message)


\* mutant: a handler that answers a failure that is no McpError with content
ResponseOf_Swallow(completion) ==
  IF completion.t = "return" \/ ~completion.error.mcp
  THEN [kind |-> "result", code |-> "ok", message |-> completion.value]
  ELSE [kind |-> "error", code |-> completion.error.code,
        message |-> completion.error.message]

\* the handler's settlement for a completion of its try block
ResponseOf(completion) ==
  IF completion.t = "return"
  THEN [kind |-> "result", code |-> "ok", message |-> completion.value]
  ELSE [kind |-> "error",
        code |-> DispatcherCatch(completion.error).code,
        message |-> DispatcherCatch(completion.error).message]

\* the handler settles: the request is answered
Respond(call, completion) ==
  [call EXCEPT !.pc = "responded",
               !.completion = NoCompletion,
               !.caught = completion.error,
               !.response = ResponseOf(completion),
               !.responses = @ + 1]

\* mutant: a finally block that swallows a failure of close
FinallyThrows_KeepsHeld(held, error) == held

\* a finally block whose close throws: the close error replaces the return
\* value or error the block was holding
FinallyThrows(held, error) == Throw(error)

\* an executor's try block completes: its finally block runs
Finally(call, completion) ==
  IF FinallyCloses(call.connection)
  THEN [call EXCEPT !.pc = "awaitClose", !.closes = @ + 1,
                    !.completion = completion]
  ELSE Respond(call, completion)

\* the handler from its entry to its first await, for request rq
Enter(rq) ==
  LET call == [IdleCall EXCEPT !.name = rq.name, !.hasArgs = rq.hasArgs,
                               !.args = rq.args]
      in(method) == [call EXCEPT !.entered = method]
      connect(method) == [call EXCEPT !.entered = method,
                                      !.pc = "awaitConnect", !.acquires = @ + 1]
      invalid(c, e) == Respond([c EXCEPT !.failed = {"validation"}], Throw(e))
      unrouted(c, e) == Respond([c EXCEPT !.failed = {"dispatch"}], Throw(e))
      route == Route(rq.name)
  IN
  CASE route = "default" ->
         unrouted(call, McpError("MethodNotFound", <<"Unknown tool: ", rq.name>>))
    [] route = "execute_query" ->
         IF ~rq.hasArgs THEN unrouted(call, TypeErrorReading("query"))
         ELSE IF rq.args.query = Undefined
              THEN invalid(in("executeQuery"), TypeErrorReading("trim"))
         ELSE IF ~ExecuteQueryAllowed(rq.args.query[1])
              THEN invalid(in("executeQuery"), McpError("InvalidParams",
                     <<"Only SELECT queries are allowed with execute_query tool">>))
         ELSE connect("executeQuery")
    [] route = "execute_dml" ->
         IF ~rq.hasArgs THEN unrouted(call, TypeErrorReading("statement"))
         ELSE IF rq.args.statement = Undefined
              THEN invalid(in("executeDML"), TypeErrorReading("trim"))
         ELSE IF ~ExecuteDMLAllowed(rq.args.statement[1])
              THEN invalid(in("executeDML"), McpError("InvalidParams",
                     <<"Only INSERT, UPDATE, and DELETE statements are allowed with execute_dml tool">>))
         ELSE connect("executeDML")
    [] route = "describe_table" ->
         IF ~rq.hasArgs THEN unrouted(call, TypeErrorReading("table_name"))
         ELSE connect("describeTable")
    [] route = "list_tables" ->
         IF ~rq.hasArgs THEN unrouted(call, TypeErrorReading("schema"))
         ELSE connect("listTables")
    [] route = "get_connection_info" ->
         connect("getConnectionInfo")

(* ----------------------------------------------------------------- actions *)

\* a tools/call request arrives and the handler runs to its first await
CallTool(c) ==
  /\ calls[c].pc = "idle"
  /\ \E rq \in Requests : calls' = [calls EXCEPT ![c] = Enter(rq)]

\* oracledb.getConnection settles
ConnectSettles(c) ==
  /\ calls[c].pc = "awaitConnect"
  /\ \/ LET opened == [calls[c] EXCEPT !.connection = "open", !.opens = @ + 1]
        IN  calls' = [calls EXCEPT ![c] =
              [opened EXCEPT !.pc = "awaitExecute",
                             !.executes = Append(@, FirstExecute(opened))]]
     \/ \E m \in ConnectErrors :
          calls' = [calls EXCEPT ![c] =
            Finally([calls[c] EXCEPT !.failed = @ \cup {"connect"},
                                     !.driverError = PlainError(m)],
                    Throw(GetConnectionCatch(PlainError(m))))]

\* connection.execute settles
ExecuteSettles(c) ==
  /\ calls[c].pc = "awaitExecute"
  /\ \/ \E n \in 0..MaxRows :
          LET call == [calls[c] EXCEPT !.rows = n]
              more == [call EXCEPT !.info = Append(@,
                         [name |-> queries[Len(call.info) + 1].name,
                          row |-> IF n > 0 THEN "row" ELSE "undefined"])]
          IN  IF call.entered = "getConnectionInfo"
              THEN IF Len(more.info) < Len(queries)
                   THEN calls' = [calls EXCEPT ![c] =
                          [more EXCEPT !.executes = Append(@,
                             [sql |-> queries[Len(more.info) + 1].query,
                              binds |-> <<>>])]]
                   ELSE calls' = [calls EXCEPT ![c] =
                          Finally(more, AfterExecute(more, n))]
              ELSE calls' = [calls EXCEPT ![c] =
                     Finally(call, AfterExecute(call, n))]
     \/ \E m \in ExecuteErrors :
          calls' = [calls EXCEPT ![c] =
            Finally([calls[c] EXCEPT !.failed = @ \cup {"execute"}],
                    Throw(PlainError(m)))]

\* connection.close settles: the finally block ends and the handler settles
CloseSettles(c) ==
  /\ calls[c].pc = "awaitClose"
  /\ \/ calls' = [calls EXCEPT ![c] =
          Respond([calls[c] EXCEPT !.connection = "closed"],
                  calls[c].completion)]
     \/ \E m \in CloseErrors :
          calls' = [calls EXCEPT ![c] =
            Respond([calls[c] EXCEPT !.connection = "closeFailed",
                                     !.failed = @ \cup {"close"}],
                    FinallyThrows(calls[c].completion, PlainError(m)))]

\* the response was delivered; the client may send its next request
Retire(c) ==
  /\ calls[c].pc = "responded"
  /\ calls' = [calls EXCEPT ![c] = IdleCall]

Next ==
  \E c \in CallIds :
    \/ CallTool(c)
    \/ ConnectSettles(c)
    \/ ExecuteSettles(c)
    \/ CloseSettles(c)
    \/ Retire(c)

Spec == Init /\ [][Next]_vars

InFlight(c) == calls[c].pc \in {"awaitConnect", "awaitExecute", "awaitClose"}

TypeOK ==
  \A c \in CallIds :
    /\ calls[c].pc \in {"idle", "awaitConnect", "awaitExecute", "awaitClose", "responded"}
    /\ calls[c].connection \in {"undefined", "open", "closed", "closeFailed"}

(* ------------------------------------------------------------------ claims *)

Responded(c) == calls[c].pc = "responded"
IsError(c) == calls[c].response.kind = "error"

\* C1: a call closes as many connections as it opened (0 or 1 of each) by the
\* time it ends, on the success path and on every failure path, and it never
\* closes when it opened none.
C1_OpenCloseBalanced ==
  \A c \in CallIds :
    /\ calls[c].opens \in {0, 1}
    /\ calls[c].closes \in {0, 1}
    /\ calls[c].closes <= calls[c].opens
    /\ Responded(c) => calls[c].closes = calls[c].opens

\* a get_connection_info call that ended after its second query failed, with
\* its one connection closed
C1_Witness ==
  \E c \in CallIds :
    /\ Responded(c)
    /\ calls[c].entered = "getConnectionInfo"
    /\ "execute" \in calls[c].failed
    /\ Len(calls[c].executes) = 2
    /\ calls[c].opens = 1 /\ calls[c].closes = 1

\* the call lacks a field its tool requires
MissingRequired(c) ==
  \/ calls[c].name = "execute_query"
       /\ (~calls[c].hasArgs \/ calls[c].args.query = Undefined)
  \/ calls[c].name = "execute_dml"
       /\ (~calls[c].hasArgs \/ calls[c].args.statement = Undefined)
  \/ calls[c].name = "describe_table"
       /\ (~calls[c].hasArgs \/ calls[c].args.table_name = Undefined)

\* C2: a call that lacks a required field fails with InvalidParams (the
\* InvalidArgument kind) and never opens or closes a connection.
C2_MissingFieldRejected ==
  \A c \in CallIds :
    MissingRequired(c) =>
      /\ calls[c].acquires = 0 /\ calls[c].opens = 0 /\ calls[c].closes = 0
      /\ Responded(c) => IsError(c) /\ calls[c].response.code = "InvalidParams"

\* s is optional whitespace, then keyword k in any letter case, then anything
HasKeyword(s, k) ==
  \E i \in 0..Len(s) :
    /\ \A j \in 1..i : s[j] \in WhiteSpace
    /\ i + Len(k) <= Len(s)
    /\ \A j \in 1..Len(k) : s[i + j] \in {k[j], LowerChar(k[j])}

\* the call was rejected with InvalidParams before any getConnection
RejectedBeforeConnect(c) ==
  /\ Responded(c) /\ IsError(c)
  /\ calls[c].response.code = "InvalidParams"
  /\ calls[c].failed = {"validation"}
  /\ calls[c].acquires = 0 /\ calls[c].opens = 0

\* the call passed validation and went on to getConnection
ProceededToConnect(c) ==
  /\ calls[c].acquires = 1
  /\ "validation" \notin calls[c].failed

\* C3: execute_query accepts exactly the statements that, whitespace and letter
\* case aside, start with SELECT, and execute_dml those that start with INSERT,
\* UPDATE or DELETE; an accepted statement goes on to open a connection, any
\* other is rejected with InvalidParams before any connection is opened.
C3_PrefixValidation ==
  \A c \in CallIds :
    /\ (calls[c].name = "execute_query" /\ calls[c].hasArgs
          /\ calls[c].args.query # Undefined) =>
         IF HasKeyword(calls[c].args.query[1], SELECT)
         THEN ProceededToConnect(c) ELSE RejectedBeforeConnect(c)
    /\ (calls[c].name = "execute_dml" /\ calls[c].hasArgs
          /\ calls[c].args.statement # Undefined) =>
         IF \E k \in {INSERT, UPDATE, DELETE} :
              HasKeyword(calls[c].args.statement[1], k)
         THEN ProceededToConnect(c) ELSE RejectedBeforeConnect(c)

\* a padded mixed-case UPDATE that execute_dml accepted and opened a connection
\* for, beside a padded SELECT that execute_dml rejected
C3_Witness ==
  \E a, b \in CallIds :
    /\ calls[a].name = "execute_dml"
    /\ calls[a].args.statement = Def(<<"\t","u","P","d","A","t","E","\n">>)
    /\ calls[a].opens = 1
    /\ calls[b].name = "execute_dml"
    /\ calls[b].args.statement = Def(Pad(MaxPad) \o SELECT \o Pad(MaxPad))
    /\ RejectedBeforeConnect(b)

\* C4 as claimed: at most one tool call is in flight at any time, so at most
\* one connection is open in the process.
C4_OneCallAtATime ==
  /\ Cardinality({c \in CallIds : InFlight(c)}) <= 1
  /\ Cardinality({c \in CallIds : calls[c].connection = "open"}) <= 1

\* C4 as amended: calls are not serialised, but a connection is open only
\* inside the call that opened it, between that call's connect and its close,
\* and a call opens at most one; so the open connections never outnumber the
\* calls in flight.
C4_ConnectionWithinCall ==
  /\ \A c \in CallIds :
       /\ calls[c].opens <= 1
       /\ calls[c].connection = "open" =>
            calls[c].pc \in {"awaitExecute", "awaitClose"} /\ calls[c].opens = 1
  /\ Cardinality({c \in CallIds : calls[c].connection = "open"})
       <= Cardinality({c \in CallIds : InFlight(c)})

\* two calls in flight together, each holding its own open connection
C4_Witness ==
  \A c \in CallIds : InFlight(c) /\ calls[c].connection = "open"

\* C5 as claimed: a failed getConnection answers with a ConnectionFailure kind.
C5_ConnectionFailureKind ==
  \A c \in CallIds :
    (Responded(c) /\ "connect" \in calls[c].failed) =>
      IsError(c) /\ calls[c].response.code = "ConnectionFailure"

\* C5 as amended: a failed getConnection ends the call at once with an
\* InternalError whose message is "Failed to connect to Oracle database: "
\* followed by the driver's message, after exactly one getConnection and with
\* no execute and no close.
C5_ConnectFailure ==
  \A c \in CallIds :
    "connect" \in calls[c].failed =>
      /\ Responded(c) /\ IsError(c)
      /\ calls[c].response.code = "InternalError"
      /\ calls[c].response.message =
           <<"Failed to connect to Oracle database: ">> \o calls[c].driverError.message
      /\ calls[c].driverError.message \in ConnectErrors
      /\ calls[c].acquires = 1
      /\ calls[c].opens = 0
      /\ calls[c].executes = <<>>
      /\ calls[c].closes = 0

\* a describe_table call ended by a failed getConnection
C5_Witness ==
  \E c \in CallIds :
    /\ Responded(c)
    /\ calls[c].entered = "describeTable"
    /\ calls[c].failed = {"connect"}

\* C6: the handler's catch clause answers an McpError with that error's own
\* code and message, and any other failure with InternalError and a message
\* that ends with the failure's message.
C6_KindPreserved ==
  \A c \in CallIds :
    (Responded(c) /\ IsError(c)) =>
      IF calls[c].caught.mcp
      THEN /\ calls[c].response.code = calls[c].caught.code
           /\ calls[c].response.message = calls[c].caught.message
           /\ calls[c].caught.code \in {"MethodNotFound", "InvalidParams", "InternalError"}
      ELSE /\ calls[c].response.code = "InternalError"
           /\ calls[c].response.message =
                <<"Database operation failed: ">> \o calls[c].caught.message
           /\ calls[c].caught.message # <<>>

\* one call answered with the InvalidParams its validator threw, beside one
\* answered with InternalError for a driver error of execute
C6_Witness ==
  \E a, b \in CallIds :
    /\ Responded(a) /\ calls[a].failed = {"validation"}
    /\ calls[a].caught.mcp /\ calls[a].response.code = "InvalidParams"
    /\ Responded(b) /\ calls[b].failed = {"execute"}
    /\ ~calls[b].caught.mcp /\ calls[b].response.code = "InternalError"

\* describe_table's catalog query resolved with zero rows
DescribeFoundNothing(c) ==
  calls[c].entered = "describeTable" /\ calls[c].rows = 0

\* the message names the call's table and, when a schema was given, the schema
NamesTable(c) ==
  /\ \E i \in 1..Len(calls[c].response.message) :
       calls[c].response.message[i] = Str(calls[c].args.table_name)
  /\ Truthy(calls[c].args.schema) =>
       \E i \in 1..Len(calls[c].response.message) :
         calls[c].response.message[i] = Str(calls[c].args.schema)

\* C7 as claimed: whenever the catalog query returns zero rows, describe_table
\* answers with a NotFound kind naming the table, after the close.
C7_NotFoundKind ==
  \A c \in CallIds :
    (DescribeFoundNothing(c) /\ Responded(c)) =>
      /\ IsError(c) /\ calls[c].response.code = "NotFound"
      /\ NamesTable(c)
      /\ calls[c].closes = 1

\* C7 as amended: when the catalog query returns zero rows, describe_table
\* calls close before it answers, and answers with an error: InvalidParams
\* with "Table '<table>' not found" (and " in schema '<schema>'" for a
\* non-empty schema) if the close succeeds, InternalError with the close
\* failure's message if it fails.
C7_TableNotFound ==
  \A c \in CallIds :
    DescribeFoundNothing(c) =>
      /\ calls[c].pc \in {"awaitClose", "responded"}
      /\ calls[c].closes = 1
      /\ calls[c].pc = "awaitClose" => calls[c].responses = 0
      /\ Responded(c) =>
           /\ IsError(c)
           /\ IF "close" \in calls[c].failed
              THEN /\ calls[c].response.code = "InternalError"
                   /\ calls[c].response.message[1] = "Database operation failed: "
                   /\ <<calls[c].response.message[2]>> \in CloseErrors
              ELSE /\ calls[c].response.code = "InvalidParams"
                   /\ calls[c].response.message[1] = "Table '"
                   /\ calls[c].response.message[3] = "' not found"
                   /\ NamesTable(c)
                   /\ Len(calls[c].response.message) =
                        IF Truthy(calls[c].args.schema) THEN 6 ELSE 3

\* a describe_table call with table and schema that found nothing, closed its
\* connection and answered
C7_Witness ==
  \E c \in CallIds :
    /\ DescribeFoundNothing(c) /\ Responded(c)
    /\ calls[c].args.table_name = Def("EMP")
    /\ calls[c].args.schema = Def("HR")
    /\ calls[c].connection = "closed"
    /\ calls[c].response.code = "InvalidParams"

\* C8: a call is answered exactly once, when it ends and not before; a call in
\* which any step failed is answered with an error and never with content; and
\* a call that opened a connection has called its close by the time it answers.
C8_OneResponse ==
  \A c \in CallIds :
    /\ calls[c].responses <= 1
    /\ Responded(c) <=> calls[c].responses = 1
    /\ calls[c].response.kind # "none" <=> calls[c].responses = 1
    /\ (Responded(c) /\ calls[c].failed # {}) => IsError(c)
    /\ calls[c].response.kind = "result" => calls[c].failed = {}
    /\ calls[c].responses = 1 => calls[c].closes = calls[c].opens
    /\ calls[c].pc = "awaitClose" =>
         calls[c].closes = 1 /\ calls[c].response.kind = "none"

\* an execute_dml call whose execute succeeded and whose close failed, answered
\* once with an error
C8_Witness ==
  \E c \in CallIds :
    /\ Responded(c)
    /\ calls[c].entered = "executeDML"
    /\ calls[c].failed = {"close"}
    /\ calls[c].opens = 1 /\ calls[c].closes = 1
    /\ calls[c].responses = 1 /\ IsError(c)

\* C9: a call that names no registered tool is answered with MethodNotFound and
\* a message containing the name, without entering an executor and without any
\* getConnection.
C9_UnknownTool ==
  \A c \in CallIds :
    (calls[c].pc # "idle" /\ calls[c].name \notin ToolNames) =>
      /\ Responded(c) /\ IsError(c)
      /\ calls[c].response.code = "MethodNotFound"
      /\ \E i \in 1..Len(calls[c].response.message) :
           calls[c].response.message[i] = calls[c].name
      /\ calls[c].entered = "none"
      /\ calls[c].failed = {"dispatch"}
      /\ calls[c].acquires = 0 /\ calls[c].opens = 0 /\ calls[c].closes = 0
      /\ calls[c].executes = <<>>

\* a call of drop_table, without arguments, answered with MethodNotFound
C9_Witness ==
  \E c \in CallIds :
    /\ Responded(c)
    /\ calls[c].name = "drop_table" /\ ~calls[c].hasArgs
    /\ calls[c].response.code = "MethodNotFound"

\* the order get_connection_info is to run its queries in
C10_Order == <<"Database Version", "Current User", "Current Schema", "Session Info">>

\* C10: get_connection_info runs its queries on one connection in the order
\* version banner, current user, current schema, session info, each only after
\* the one before it succeeded; after a failed query it runs no further one, and
\* the call ends in an error; content is returned only after all four succeeded.
C10_QueriesInOrder ==
  \A c \in CallIds :
    calls[c].entered = "getConnectionInfo" =>
      /\ calls[c].acquires = 1 /\ calls[c].opens <= 1
      /\ Len(calls[c].executes) <= Len(C10_Order)
      /\ \A i \in 1..Len(calls[c].executes) :
           \E j \in 1..Len(queries) :
             /\ queries[j].name = C10_Order[i]
             /\ calls[c].executes[i].sql = queries[j].query
      /\ \A i \in 1..Len(calls[c].info) : calls[c].info[i].name = C10_Order[i]
      /\ Len(calls[c].info) <= Len(calls[c].executes)
      /\ Len(calls[c].executes) <= Len(calls[c].info) + 1
      /\ calls[c].pc = "awaitExecute" =>
           Len(calls[c].executes) = Len(calls[c].info) + 1
      /\ "execute" \in calls[c].failed =>
           /\ calls[c].pc \in {"awaitClose", "responded"}
           /\ Len(calls[c].executes) = Len(calls[c].info) + 1
           /\ calls[c].response.kind # "result"
           /\ Responded(c) => IsError(c)
      /\ calls[c].response.kind = "result" =>
           /\ Len(calls[c].info) = Len(C10_Order)
           /\ Len(calls[c].executes) = Len(C10_Order)

\* a get_connection_info call whose third query failed: two entries collected,
\* three queries run, answered with an error
C10_Witness ==
  \E c \in CallIds :
    /\ Responded(c) /\ IsError(c)
    /\ calls[c].entered = "getConnectionInfo"
    /\ "execute" \in calls[c].failed
    /\ Len(calls[c].executes) = 3 /\ Len(calls[c].info) = 2

\* C11: content is returned only by a call that opened a connection, whose
\* every execute succeeded and whose close succeeded; a call whose close
\* failed answers with InternalError carrying the close failure's message,
\* whatever result its executor had built.
C11_SuccessNeedsCleanClose ==
  \A c \in CallIds :
    /\ calls[c].response.kind = "result" =>
         /\ Responded(c)
         /\ calls[c].opens = 1 /\ calls[c].closes = 1
         /\ calls[c].connection = "closed"
         /\ calls[c].executes # <<>>
         /\ calls[c].rows >= 0
         /\ calls[c].failed = {}
    /\ (Responded(c) /\ "close" \in calls[c].failed) =>
         /\ calls[c].connection = "closeFailed"
         /\ IsError(c)
         /\ calls[c].response.code = "InternalError"
         /\ Len(calls[c].response.message) = 2
         /\ calls[c].response.message[1] = "Database operation failed: "
         /\ <<calls[c].response.message[2]>> \in CloseErrors

\* a list_tables call whose query succeeded and whose close failed, answered
\* with InternalError, beside an execute_query call answered with content
C11_Witness ==
  \E a, b \in CallIds :
    /\ Responded(a)
    /\ calls[a].entered = "listTables"
    /\ calls[a].rows >= 0
    /\ calls[a].failed = {"close"}
    /\ calls[a].response.code = "InternalError"
    /\ Responded(b)
    /\ calls[b].entered = "executeQuery"
    /\ calls[b].response.kind = "result"
    /\ calls[b].connection = "closed"

====
